---- MODULE Spec2Model ----
(***************************************************************************)
(* Model of the AI dubbing studio backend: the transcribe / translate /    *)
(* text-to-speech request handlers (backend/api/routes/v1/audio.py), the   *)
(* OpenAI service adapter (backend/services/openai_client.py), the         *)
(* temporary file utilities (backend/utils/file_handlers.py), the         *)
(* response schemas (backend/schemas/audio.py), the retrying Codex client  *)
(* (mcp_servers/codex/client.py) and the Gemini chat sessions              *)
(* (mcp_servers/gemini/session_manager.py, server.py).                     *)
(*                                                                         *)
(* Python strings whose content the code inspects (lower(), title(),       *)
(* strip(), Path.suffix, truthiness) are sequences of one-character        *)
(* strings.  Python's None is the one-element sequence None below, which   *)
(* no string of the model equals.                                          *)
(***************************************************************************)
EXTENDS Integers, Sequences, FiniteSets, TLC

VARIABLES
    req,        \* transcribe requests: request id -> the handler's frame
    fs,         \* the temporary directory: the set of paths that exist
    next_uuid,  \* source of uuid4() values (each one fresh)
    tl,         \* the translate request
    tts,        \* the text-to-speech request
    codex,      \* the CodexClient.query call
    svc,        \* the OpenAIService singleton and the callers resolving it
    cl,         \* the cleanup_files call
    clock,      \* time.time(), and how many times it has advanced
    lock,       \* SessionManager._lock: the thread holding it, "" when free
    sessions,   \* SessionManager._sessions: session id -> ChatSession object
    heap,       \* the ChatSession objects ever constructed, by identity
    chat,       \* the gemini_chat calls
    thr         \* the threads calling SessionManager methods

\* The state of the Gemini chat-session tooling
gemini_vars == <<clock, lock, sessions, heap, chat, thr>>

vars == <<req, fs, next_uuid, tl, tts, codex, svc, cl, gemini_vars>>

\* The state of the request handlers, and the state outside them
backend_vars == <<req, fs, next_uuid, tl, tts>>
others == <<codex, svc, cl, gemini_vars>>

----------------------------------------------------------------------------
(* Strings *)

None == <<"<None>">>
Raised == <<"<raised>">>
NotCalled == <<"<not called>">>

\* Python truthiness of an optional string: None and "" are falsy.
Truthy(s) == s # None /\ s # <<>>

UpperAlpha == <<"A","B","C","D","E","F","G","H","I","J","K","L","M",
                "N","O","P","Q","R","S","T","U","V","W","X","Y","Z">>
LowerAlpha == <<"a","b","c","d","e","f","g","h","i","j","k","l","m",
                "n","o","p","q","r","s","t","u","v","w","x","y","z">>

IsUpper(c) == \E i \in DOMAIN UpperAlpha : UpperAlpha[i] = c
IsLower(c) == \E i \in DOMAIN LowerAlpha : LowerAlpha[i] = c
IsAlpha(c) == IsUpper(c) \/ IsLower(c)
LowerChar(c) ==
    IF IsUpper(c) THEN LowerAlpha[CHOOSE i \in DOMAIN UpperAlpha : UpperAlpha[i] = c]
    ELSE c
UpperChar(c) ==
    IF IsLower(c) THEN UpperAlpha[CHOOSE i \in DOMAIN LowerAlpha : LowerAlpha[i] = c]
    ELSE c

\* str.lower()
Lower(s) == [i \in 1..Len(s) |-> LowerChar(s[i])]

\* str.title(): a letter that starts a word is upper-cased, any other is lower-cased
Title(s) ==
    [i \in 1..Len(s) |->
        IF i = 1 \/ ~IsAlpha(s[i - 1]) THEN UpperChar(s[i]) ELSE LowerChar(s[i])]

IsSpace(c) == c \in {" ", "\t", "\n"}

RECURSIVE LStrip(_)
LStrip(s) == IF s # <<>> /\ IsSpace(Head(s)) THEN LStrip(Tail(s)) ELSE s

RECURSIVE RStrip(_)
RStrip(s) ==
    IF s # <<>> /\ IsSpace(s[Len(s)]) THEN RStrip(SubSeq(s, 1, Len(s) - 1)) ELSE s

\* str.strip()
Strip(s) == RStrip(LStrip(s))

\* The index of the last "." of a name, 0 when it has none (str.rfind).
RFindDot(name) ==
    IF \E i \in 1..Len(name) : name[i] = "."
    THEN CHOOSE i \in 1..Len(name) :
            name[i] = "." /\ \A j \in (i + 1)..Len(name) : name[j] # "."
    ELSE 0

\* pathlib's Path(name).suffix for a name without directory separators: the
\* text from the last dot on, unless that dot leads or ends the name.
PathSuffix(name) ==
    LET i == RFindDot(name)
    IN  IF 1 < i /\ i < Len(name) THEN SubSeq(name, i, Len(name)) ELSE <<>>

----------------------------------------------------------------------------
(* Constants of the program *)

EXT_MP3 == <<".", "m", "p", "3">>
EXT_OGG == <<".", "o", "g", "g">>
EXT_WAV == <<".", "w", "a", "v">>
EXT_M4A == <<".", "m", "4", "a">>

\* validate_audio_file: valid_extensions
valid_extensions == {EXT_MP3, EXT_OGG, EXT_WAV, EXT_M4A}

\* file.filename or "audio.tmp"
DEFAULT_FILENAME == <<"a", "u", "d", "i", "o", ".", "t", "m", "p">>

English == <<"E","n","g","l","i","s","h">>
Spanish == <<"S","p","a","n","i","s","h">>

\* LANGUAGE_CODE_TO_NAME, as the set of its (code, name) items
LANGUAGE_CODE_TO_NAME ==
    { <<<<"e","n">>, English>>,
      <<<<"h","e">>, <<"H","e","b","r","e","w">>>>,
      <<<<"r","u">>, <<"R","u","s","s","i","a","n">>>>,
      <<<<"e","s">>, Spanish>>,
      <<<<"a","r">>, <<"A","r","a","b","i","c">>>>,
      <<<<"f","r">>, <<"F","r","e","n","c","h">>>>,
      <<<<"d","e">>, <<"G","e","r","m","a","n">>>>,
      <<<<"i","t">>, <<"I","t","a","l","i","a","n">>>>,
      <<<<"p","t">>, <<"P","o","r","t","u","g","u","e","s","e">>>>,
      <<<<"z","h">>, <<"C","h","i","n","e","s","e">>>>,
      <<<<"j","a">>, <<"J","a","p","a","n","e","s","e">>>>,
      <<<<"k","o">>, <<"K","o","r","e","a","n">>>>,
      <<<<"h","i">>, <<"H","i","n","d","i">>>>,
      <<<<"p","l">>, <<"P","o","l","i","s","h">>>>,
      <<<<"u","k">>, <<"U","k","r","a","i","n","i","a","n">>>>,
      <<<<"t","r">>, <<"T","u","r","k","i","s","h">>>>,
      <<<<"n","l">>, <<"D","u","t","c","h">>>>,
      <<<<"s","v">>, <<"S","w","e","d","i","s","h">>>> }

\* dict.get(key, default) on LANGUAGE_CODE_TO_NAME
LanguageGet(key, default) ==
    IF \E item \in LANGUAGE_CODE_TO_NAME : item[1] = key
    THEN (CHOOSE item \in LANGUAGE_CODE_TO_NAME : item[1] = key)[2]
    ELSE default

WHISPER_1 == "whisper-1"
GPT_4O_MINI_TRANSCRIBE == "gpt-4o-mini-transcribe"
GPT_4O_TRANSCRIBE == "gpt-4o-transcribe"
GPT_5_MINI == "gpt-5-mini"
GPT_4O_MINI_TTS == "gpt-4o-mini-tts"
TTS_1 == "tts-1"
TTS_1_HD == "tts-1-hd"

\* settings.max_upload_size (bytes)
max_upload_size == 26214400

\* settings.transcription_model and settings.tts_model_default (their defaults)
settings_transcription_model == GPT_4O_TRANSCRIBE
settings_tts_model_default == GPT_4O_MINI_TTS

\* DEFAULT_TTS_INSTRUCTIONS, a non-empty string whose content nothing inspects
DEFAULT_TTS_INSTRUCTIONS == <<"<DEFAULT_TTS_INSTRUCTIONS>">>

AUDIO_CONTENT_IN ==
    <<"A","u","d","i","o"," ","c","o","n","t","e","n","t"," ","i","n"," ">>

\* Exception classes, by name
FileValidationError == "FileValidationError"
AudioProcessingError == "AudioProcessingError"
TranscriptionError == "TranscriptionError"
TranslationError == "TranslationError"
TTSError == "TTSError"
OtherException == "Exception"

----------------------------------------------------------------------------
(* backend/utils/file_handlers.py *)

\* A path of the temporary directory: <uuid4><suffix>.  NoPath is Python's None.
NoPath == [id |-> 0, suffix |-> <<>>]

\* Mutant of get_temp_file_path: the name does not come from uuid4() but is
\* the same for every call
get_temp_file_path_fixed(suffix) == [id |-> 1, suffix |-> suffix]

\* get_temp_file_path(suffix): uuid4() yields a value never produced before
get_temp_file_path(suffix) == [id |-> next_uuid, suffix |-> suffix]

\* Mutant of validate_audio_file: the missing-filename check is lost
validate_audio_file_without_name_check(filename) ==
    \/ ~Truthy(filename)
    \/ Lower(PathSuffix(filename)) \in valid_extensions

\* validate_audio_file(file): TRUE when it returns, FALSE when it raises
\* FileValidationError (no filename, or an extension outside valid_extensions)
validate_audio_file(filename) ==
    /\ Truthy(filename)
    /\ Lower(PathSuffix(filename)) \in valid_extensions

\* cleanup_files(*paths) on the directory `files`: every listed path that exists
\* is unlinked; an unlink that raises (the paths in `failing`) is logged and
\* the loop goes on.
cleanup_files(paths, files, failing) ==
    files \ ({paths[i] : i \in DOMAIN paths} \ failing)

----------------------------------------------------------------------------
(* backend/services/openai_client.py *)

\* OpenAIService.transcribe_audio: the request parameters it builds.  A key
\* the code leaves out of request_params is None here.
transcription_request(model, language, prompt) ==
    LET transcription_model == IF model # "" THEN model ELSE settings_transcription_model
    IN  [api |-> "audio.transcriptions",
         model |-> transcription_model,
         language |-> IF Truthy(language) THEN language ELSE None,
         prompt |-> IF Truthy(prompt)
                       /\ transcription_model \in {GPT_4O_TRANSCRIBE, GPT_4O_MINI_TRANSCRIBE}
                    THEN prompt ELSE None]

\* Mutant of transcribe_result: an upstream failure is swallowed and an empty
\* transcript returned
transcribe_result_swallowing(outcome) ==
    IF outcome.kind = "object"
    THEN [raised |-> FALSE, text |-> outcome.text, language |-> outcome.language]
    ELSE [raised |-> FALSE, text |-> <<>>, language |-> None]

\* OpenAIService.transcribe_audio: what it makes of the upstream outcome.  An
\* upstream exception, and a response without a .text attribute (a map-style
\* response), end in TranscriptionError; an object-style response is returned
\* as (response.text, getattr(response, "language", None)).
transcribe_result(outcome) ==
    IF outcome.kind = "object"
    THEN [raised |-> FALSE, text |-> outcome.text, language |-> outcome.language]
    ELSE [raised |-> TRUE, text |-> None, language |-> None]

\* LANGUAGE_CODE_TO_NAME.get(language.lower(), language.title())
language_name(language) == LanguageGet(Lower(language), Title(language))

\* f"Audio content in {language_name}."
default_prompt(language) == AUDIO_CONTENT_IN \o language_name(language) \o <<".">>

\* OpenAIService.generate_optimized_prompt: the chat completion it requests
optimizer_request(language, initial_transcription) ==
    [api |-> "chat.completions", model |-> GPT_5_MINI,
     language |-> language_name(language), prompt |-> initial_transcription]

\* Mutant of generate_optimized_prompt: the fallback returns an empty prompt
generate_optimized_prompt_empty_fallback(language, content) ==
    IF content = Raised \/ ~Truthy(content) THEN <<>> ELSE Strip(content)

\* Mutant of generate_optimized_prompt: an upstream exception propagates
generate_optimized_prompt_propagating(language, content) ==
    IF content = Raised THEN Raised
    ELSE IF ~Truthy(content) THEN default_prompt(language)
    ELSE Strip(content)

\* OpenAIService.generate_optimized_prompt: its return value, from the
\* completion's message content (Raised: the upstream call raised)
generate_optimized_prompt(language, content) ==
    IF content = Raised THEN default_prompt(language)
    ELSE IF ~Truthy(content) THEN default_prompt(language)
    ELSE Strip(content)

\* OpenAIService.translate_text: its return value, Raised for TranslationError
translate_text(content) ==
    IF content = Raised THEN Raised
    ELSE IF ~Truthy(content) THEN Raised
    ELSE Strip(content)

\* Mutant of speech_request: supplied instructions are forwarded to any model
speech_request_forwarding(text, voice, model, instructions) ==
    LET m == IF model # "" THEN model ELSE settings_tts_model_default
    IN  [api |-> "audio.speech", model |-> m, voice |-> voice, input |-> text,
         instructions |-> IF Truthy(instructions) THEN instructions
                          ELSE IF m = GPT_4O_MINI_TTS THEN DEFAULT_TTS_INSTRUCTIONS
                          ELSE None]

\* OpenAIService.generate_speech: the request parameters it builds
speech_request(text, voice, model, instructions) ==
    LET m == IF model # "" THEN model ELSE settings_tts_model_default
    IN  [api |-> "audio.speech", model |-> m, voice |-> voice, input |-> text,
         instructions |-> IF m = GPT_4O_MINI_TTS
                          THEN (IF Truthy(instructions) THEN instructions
                                ELSE DEFAULT_TTS_INSTRUCTIONS)
                          ELSE None]

----------------------------------------------------------------------------
(* backend/schemas/audio.py *)

\* TranscribeResponse(text=..., language=...): text has min_length=1
TranscribeResponseValid(text, language) == Len(text) >= 1

\* TranslateRequest: text has min_length=1 and max_length=50000, the languages
\* min_length=1 and max_length=50
TranslateRequestValid(text, source_language, target_language) ==
    /\ Len(text) >= 1 /\ Len(text) <= 50000
    /\ Len(source_language) >= 1 /\ Len(source_language) <= 50
    /\ Len(target_language) >= 1 /\ Len(target_language) <= 50

\* TTSRequest: text has min_length=1 and max_length=4096, instructions (when
\* given) max_length=1000
TTSRequestValid(text, instructions) ==
    /\ Len(text) >= 1 /\ Len(text) <= 4096
    /\ instructions # None => Len(instructions) <= 1000

\* The error a request body that fails its schema ends in, before the
\* endpoint is entered
RequestValidationError == "RequestValidationError"

\* The response to such a request.  main.py registers no handler for it, so
\* it is the framework's: status 422 with the list of violations as detail
\* and no error_code (test_audio_routes.py: test_translate_empty_text).
request_validation_response(t) ==
    [t EXCEPT !.pc = "responded", !.status = 422, !.error = RequestValidationError]

\* Mutant of TranslateResponseValid: the schema has no min_length
TranslateResponseValid_unconstrained(translated_text) == TRUE

\* TranslateResponse(translated_text=..., ...): translated_text has min_length=1
TranslateResponseValid(translated_text) == Len(translated_text) >= 1

----------------------------------------------------------------------------
(* Inputs and upstream outcomes *)

Reqs == {"r1", "r2"}

FileNames ==
    { None, <<>>,
      <<"a", ".", "m", "p", "3">>,
      <<"a", ".", "O", "G", "G">>,
      <<"a", ".", "b", ".", "w", "a", "v">>,
      <<"a", ".", "m", "4", "a">>,
      <<"a", ".", "t", "x", "t">>,
      <<"a", ".", "m", "p", "3", ".", "t", "x", "t">>,
      <<".", "m", "p", "3">>,
      <<"m", "p", "3">>,
      <<"a", ".", "m", "p", "3", ".">> }

LanguageHints == { None, <<>>, <<"e", "s">>, <<"E", "S">>, <<"x", "x">> }

Texts == { <<>>, <<"h", "i">>, <<"h", "o">> }

DetectedLanguages == { None, <<>>, <<"e", "s">>, <<"x", "x">> }

\* Sizes of the uploaded audio, in bytes: small, and just over the maximum
UploadSizes == { 1, max_upload_size + 1 }

\* What the upstream transcription endpoint does with one call: it raises, or
\* returns an object-style or a map-style response.
TranscriptionOutcomes ==
    { [kind |-> "raise", text |-> None, language |-> None] }
    \cup [kind : {"object", "map"}, text : Texts, language : DetectedLanguages]

\* What the upstream chat completion yields as message content (Raised: the
\* call raised, None: no content)
OptimizerOutcomes ==
    { Raised, None, <<>>, <<" ">>, <<" ", "p", "\n">>, <<"p">> }

TranslateTexts == { <<>>, <<"H", "i">>, <<"o", "k">> }
LanguageNames == { English, Spanish }
TranslationOutcomes ==
    { Raised, None, <<>>, <<" ", "\n">>, <<" ", "H", "o", "l", "a", "\n">>,
      <<"H", "o", "l", "a">> }

SpeechTexts == { <<>>, <<"T", "e", "s", "t">> }
Voices == { "onyx", "nova" }
SpeechModels == { "", GPT_4O_MINI_TTS, TTS_1, TTS_1_HD }
Instructions == { None, <<>>, <<"w", "a", "r", "m">> }
\* Raised, or the bytes response.read() returns
SpeechOutcomes == { Raised, <<>>, <<"m", "p", "3">> }

----------------------------------------------------------------------------
(* backend/api/routes/v1/audio.py: transcribe_audio *)

NoBody == [text |-> None, language |-> None, detail |-> "", error_code |-> ""]

\* A request that has not arrived
IdleRequest ==
    [pc |-> "off", filename |-> None, language |-> None,
     temp_input |-> NoPath, temp_mp3 |-> NoPath,
     initial_text |-> None, detected_lang |-> None, detected_language |-> None,
     optimizer_content |-> NotCalled, optimized_prompt |-> None, final_text |-> None,
     convert |-> "none", calls |-> <<>>, bg |-> <<>>, created |-> {},
     undeleted |-> {}, error |-> "", status |-> 0, body |-> NoBody, size |-> 1]

\* A request at the entry of transcribe_audio (temp_input = temp_mp3 = None)
NewRequest(filename, language) ==
    [IdleRequest EXCEPT !.pc = "start", !.filename = filename, !.language = language]

\* background_tasks.add_task(cleanup_files, *paths)
add_task(q, paths) == [q EXCEPT !.bg = Append(@, paths)]

\* Mutant of OnException: a file validation error is answered like any other
\* failure, with status 500
OnException_always_500(q, exc) ==
    LET files_to_clean == SelectSeq(<<q.temp_input, q.temp_mp3>>, LAMBDA f : f # NoPath)
        scheduled ==
            IF exc = FileValidationError
            THEN (IF q.temp_input # NoPath THEN add_task(q, <<q.temp_input>>) ELSE q)
            ELSE (IF files_to_clean # <<>> THEN add_task(q, files_to_clean) ELSE q)
    IN  [scheduled EXCEPT !.pc = "raised", !.error = exc, !.status = 500]

\* The except clauses of transcribe_audio: each schedules the cleanup of the
\* files assigned so far and raises HTTPException (400 for
\* FileValidationError, 500 for every other class).
OnException(q, exc) ==
    LET files_to_clean == SelectSeq(<<q.temp_input, q.temp_mp3>>, LAMBDA f : f # NoPath)
        scheduled ==
            IF exc = FileValidationError
            THEN (IF q.temp_input # NoPath THEN add_task(q, <<q.temp_input>>) ELSE q)
            ELSE (IF files_to_clean # <<>> THEN add_task(q, files_to_clean) ELSE q)
    IN  [scheduled EXCEPT !.pc = "raised", !.error = exc,
                          !.status = IF exc = FileValidationError THEN 400 ELSE 500]

\* Mutant of IssueCall: the cleanup of the file is scheduled as the call is
\* issued
IssueCall_scheduling_cleanup(q, params, file) ==
    [q EXCEPT !.calls = Append(@, [api |-> params.api, model |-> params.model,
                                   language |-> params.language,
                                   prompt |-> params.prompt,
                                   file |-> file, outcome |-> "pending"]),
              !.bg = Append(@, <<file>>)]

\* An upstream call goes out: it is recorded with the file it reads
IssueCall(q, params, file) ==
    [q EXCEPT !.calls = Append(@, [api |-> params.api, model |-> params.model,
                                   language |-> params.language,
                                   prompt |-> params.prompt,
                                   file |-> file, outcome |-> "pending"])]

\* The pending call (the last one) ends with `kind`
EndCall(q, kind) == [q EXCEPT !.calls[Len(q.calls)].outcome = kind]

\* The same request with an upload of `size` bytes
NewUpload(filename, language, size) ==
    [NewRequest(filename, language) EXCEPT !.size = size]

\* if language: Flow 2 (user-specified language), else Flow 1 (auto-detect)
UseFlow2(language) == Truthy(language)

\* Mutant of initial_request: the hint is normalised to lower case
initial_request_lowercasing(language) ==
    IF UseFlow2(language)
    THEN transcription_request(GPT_4O_MINI_TRANSCRIBE, Lower(language), None)
    ELSE transcription_request(WHISPER_1, None, None)

\* Step 1 of either flow: the initial transcription request
initial_request(language) ==
    IF UseFlow2(language)
    THEN transcription_request(GPT_4O_MINI_TRANSCRIBE, language, None)
    ELSE transcription_request(WHISPER_1, None, None)

\* Mutant of resolve_detected_language: no fallback
resolve_detected_language_without_default(detected_lang) == detected_lang

\* detected_language = detected_lang or "en"
resolve_detected_language(detected_lang) ==
    IF Truthy(detected_lang) THEN detected_lang ELSE <<"e", "n">>

\* The language of steps 2 and 3: the hint in Flow 2, detected_language in Flow 1
pipeline_language(q) == IF UseFlow2(q.language) THEN q.language ELSE q.detected_language

\* final_language = LANGUAGE_CODE_TO_NAME.get(x.lower(), x)
final_language(language) == LanguageGet(Lower(language), language)

\* Mutant of OpenAndTranscribe: the saved upload is opened instead of the MP3
OpenAndTranscribe_upload(q, files, params, pc) ==
    IF q.temp_input \in files
    THEN IssueCall([q EXCEPT !.pc = pc], params, q.temp_input)
    ELSE OnException(q, OtherException)

\* with open(temp_mp3, "rb") as audio_file: await transcribe_audio(...).
\* Opening a file that does not exist raises FileNotFoundError.
OpenAndTranscribe(q, files, params, pc) ==
    IF q.temp_mp3 \in files
    THEN IssueCall([q EXCEPT !.pc = pc], params, q.temp_mp3)
    ELSE OnException(q, OtherException)

\* The request arrives: validate_audio_file, then temp_input is assigned and
\* save_upload_file awaits file.read().
Validate(r) ==
    LET q == req[r] IN
    /\ q.pc = "start"
    /\ IF validate_audio_file(q.filename)
       THEN /\ req' = [req EXCEPT ![r] =
                        [q EXCEPT !.pc = "save",
                                  !.temp_input =
                                      get_temp_file_path(PathSuffix(
                                          IF Truthy(q.filename) THEN q.filename
                                          ELSE DEFAULT_FILENAME))]]
            /\ next_uuid' = next_uuid + 1
       ELSE /\ req' = [req EXCEPT ![r] = OnException(q, FileValidationError)]
            /\ UNCHANGED next_uuid
    /\ UNCHANGED <<fs, tl, tts, others>>

\* save_upload_file returns: the upload is on disk.  temp_mp3 is assigned and
\* convert_to_mp3 is awaited.
SaveUploadOk(r) ==
    LET q == req[r] IN
    /\ q.pc = "save"
    /\ fs' = fs \cup {q.temp_input}
    /\ req' = [req EXCEPT ![r] =
                [q EXCEPT !.pc = "convert", !.created = @ \cup {q.temp_input},
                          !.temp_mp3 = get_temp_file_path(EXT_MP3)]]
    /\ next_uuid' = next_uuid + 1
    /\ UNCHANGED <<tl, tts, others>>

\* save_upload_file raises (reading the upload, or opening or writing the
\* destination, which may leave the file behind): except Exception.
SaveUploadFail(r) ==
    LET q == req[r] IN
    /\ q.pc = "save"
    /\ \E written \in BOOLEAN :
        /\ fs' = IF written THEN fs \cup {q.temp_input} ELSE fs
        /\ req' = [req EXCEPT ![r] =
                    OnException([q EXCEPT !.created =
                                    IF written THEN @ \cup {q.temp_input} ELSE @],
                                OtherException)]
    /\ UNCHANGED <<next_uuid, tl, tts, others>>

\* convert_to_mp3 returns: the MP3 is on disk; step 1 opens it and issues the
\* initial transcription call.
ConvertOk(r) ==
    LET q == [req[r] EXCEPT !.convert = "ok", !.created = @ \cup {req[r].temp_mp3}] IN
    /\ req[r].pc = "convert"
    /\ fs' = fs \cup {q.temp_mp3}
    /\ req' = [req EXCEPT ![r] =
                OpenAndTranscribe(q, fs', initial_request(q.language), "initial")]
    /\ UNCHANGED <<next_uuid, tl, tts, others>>

\* Mutant of ConvertFail: the conversion error is swallowed and step 1 runs on
\* whatever the export left behind
ConvertFail_swallowed(r) ==
    LET q == [req[r] EXCEPT !.convert = "failed", !.created = @ \cup {req[r].temp_mp3}] IN
    /\ req[r].pc = "convert"
    /\ fs' = fs \cup {q.temp_mp3}
    /\ req' = [req EXCEPT ![r] =
                OpenAndTranscribe(q, fs', initial_request(q.language), "initial")]
    /\ UNCHANGED <<next_uuid, tl, tts, others>>

\* convert_to_mp3 raises AudioProcessingError (the export may leave a partial
\* MP3 behind): except AudioProcessingError.
ConvertFail(r) ==
    LET q == req[r] IN
    /\ q.pc = "convert"
    /\ \E written \in BOOLEAN :
        /\ fs' = IF written THEN fs \cup {q.temp_mp3} ELSE fs
        /\ req' = [req EXCEPT ![r] =
                    OnException([q EXCEPT !.convert = "failed",
                                          !.created =
                                              IF written THEN @ \cup {q.temp_mp3} ELSE @],
                                AudioProcessingError)]
    /\ UNCHANGED <<next_uuid, tl, tts, others>>

\* The initial transcription call ends.  On TranscriptionError: except
\* TranscriptionError.  Otherwise (initial_text, detected_lang) is taken (Flow 2
\* drops the language), and generate_optimized_prompt issues its completion.
InitialReturn(r) ==
    LET q == req[r] IN
    /\ q.pc = "initial"
    /\ \E outcome \in TranscriptionOutcomes :
        LET res == transcribe_result(outcome)
            ended == EndCall(q, outcome.kind)
            got == IF UseFlow2(q.language)
                   THEN [ended EXCEPT !.initial_text = res.text]
                   ELSE [ended EXCEPT !.initial_text = res.text,
                                      !.detected_lang = res.language,
                                      !.detected_language =
                                          resolve_detected_language(res.language)]
        IN  req' = [req EXCEPT ![r] =
                IF res.raised
                THEN OnException(ended, TranscriptionError)
                ELSE IssueCall([got EXCEPT !.pc = "optimize"],
                               optimizer_request(pipeline_language(got),
                                                 got.initial_text),
                               NoPath)]
    /\ UNCHANGED <<fs, next_uuid, tl, tts, others>>

\* Mutant of OptimizeReturn: step 3 is given the initial transcript as its
\* prompt instead of the optimizer's result
OptimizeReturn_passing_transcript(r) ==
    LET q == req[r] IN
    /\ q.pc = "optimize"
    /\ \E content \in OptimizerOutcomes :
        LET lang == pipeline_language(q)
            got == [EndCall(q, IF content = Raised THEN "raise" ELSE "object")
                      EXCEPT !.optimizer_content = content,
                             !.optimized_prompt = generate_optimized_prompt(lang, content)]
        IN  req' = [req EXCEPT ![r] =
                IF got.optimized_prompt = Raised
                THEN OnException(got, TranscriptionError)
                ELSE OpenAndTranscribe(got, fs,
                        transcription_request(GPT_4O_TRANSCRIBE, lang, got.initial_text),
                        "final")]
    /\ UNCHANGED <<fs, next_uuid, tl, tts, others>>

\* generate_optimized_prompt ends.  An exception out of it (Raised; the
\* function is documented to raise TranscriptionError) would reach the except
\* clauses; on its return step 3 opens the MP3 again and issues the refined
\* transcription call with the prompt.
OptimizeReturn(r) ==
    LET q == req[r] IN
    /\ q.pc = "optimize"
    /\ \E content \in OptimizerOutcomes :
        LET lang == pipeline_language(q)
            got == [EndCall(q, IF content = Raised THEN "raise" ELSE "object")
                      EXCEPT !.optimizer_content = content,
                             !.optimized_prompt = generate_optimized_prompt(lang, content)]
        IN  req' = [req EXCEPT ![r] =
                IF got.optimized_prompt = Raised
                THEN OnException(got, TranscriptionError)
                ELSE OpenAndTranscribe(got, fs,
                        transcription_request(GPT_4O_TRANSCRIBE, lang, got.optimized_prompt),
                        "final")]
    /\ UNCHANGED <<fs, next_uuid, tl, tts, others>>

\* The refined transcription call ends.  On success final_language is looked
\* up, the cleanup is scheduled and TranscribeResponse is built; a text the
\* schema rejects raises a validation error inside the try block.
FinalReturn(r) ==
    LET q == req[r] IN
    /\ q.pc = "final"
    /\ \E outcome \in TranscriptionOutcomes :
        LET res == transcribe_result(outcome)
            ended == EndCall(q, outcome.kind)
            language == final_language(pipeline_language(q))
            scheduled == add_task([ended EXCEPT !.final_text = res.text],
                                  <<q.temp_input, q.temp_mp3>>)
        IN  req' = [req EXCEPT ![r] =
                IF res.raised
                THEN OnException(ended, TranscriptionError)
                ELSE IF TranscribeResponseValid(res.text, language)
                THEN [scheduled EXCEPT !.pc = "returned", !.status = 200,
                                       !.body = [NoBody EXCEPT !.text = res.text,
                                                               !.language = language]]
                ELSE OnException(scheduled, OtherException)]
    /\ UNCHANGED <<fs, next_uuid, tl, tts, others>>

\* The endpoint returned: its response carries the request's background tasks
\* and is sent; the tasks run after it.
SendResponse(r) ==
    /\ req[r].pc = "returned"
    /\ req' = [req EXCEPT ![r].pc = "responded"]
    /\ UNCHANGED <<fs, next_uuid, tl, tts, others>>

\* backend/api/main.py, http_exception_handler: the response to an
\* HTTPException is a new JSONResponse(status_code, content).  It is built
\* without a background argument, so the tasks the endpoint added to its
\* BackgroundTasks are not attached to any response and never run.
http_exception_handler(q) ==
    [q EXCEPT !.pc = "responded",
              !.body = [NoBody EXCEPT !.detail = q.error, !.error_code = "HTTP_ERROR"],
              !.bg = <<>>]

\* The endpoint raised HTTPException: the handler's response is sent.
SendErrorResponse(r) ==
    /\ req[r].pc = "raised"
    /\ req' = [req EXCEPT ![r] = http_exception_handler(req[r])]
    /\ UNCHANGED <<fs, next_uuid, tl, tts, others>>

\* After the response, the next background task runs: cleanup_files(*paths).
\* An unlink may raise for any of the files that exist.
RunBackgroundTask(r) ==
    LET q == req[r] IN
    /\ q.pc = "responded"
    /\ q.bg # <<>>
    /\ \E failing \in SUBSET ({Head(q.bg)[i] : i \in DOMAIN Head(q.bg)} \cap fs) :
        /\ fs' = cleanup_files(Head(q.bg), fs, failing)
        /\ req' = [req EXCEPT ![r] =
                    [q EXCEPT !.bg = Tail(@), !.undeleted = @ \cup failing]]
    /\ UNCHANGED <<next_uuid, tl, tts, others>>

\* The request and everything it scheduled are over
Finished(q) == q.pc = "responded" /\ q.bg = <<>>

----------------------------------------------------------------------------
(* backend/api/routes/v1/audio.py: translate_text *)

IdleTranslate ==
    [pc |-> "off", text |-> <<>>, source_language |-> <<>>, target_language |-> <<>>,
     calls |-> <<>>, content |-> NotCalled, error |-> "", status |-> 0,
     translated_text |-> None, error_code |-> ""]

NewTranslate(text, source_language, target_language) ==
    [IdleTranslate EXCEPT !.pc = "start", !.text = text,
                          !.source_language = source_language,
                          !.target_language = target_language]

\* The request body fails TranslateRequest: the endpoint is not entered.
TranslateRejected ==
    /\ tl.pc = "start"
    /\ ~TranslateRequestValid(tl.text, tl.source_language, tl.target_language)
    /\ tl' = request_validation_response(tl)
    /\ UNCHANGED <<req, fs, next_uuid, tts, others>>

\* The request arrives: OpenAIService.translate_text issues its completion.
TranslateCall ==
    /\ tl.pc = "start"
    /\ TranslateRequestValid(tl.text, tl.source_language, tl.target_language)
    /\ tl' = [tl EXCEPT !.pc = "calling",
                        !.calls = Append(@, [api |-> "chat.completions",
                                             source_language |-> tl.source_language,
                                             target_language |-> tl.target_language,
                                             input |-> tl.text])]
    /\ UNCHANGED <<req, fs, next_uuid, tts, others>>

\* The route on the service's result: except TranslationError and except
\* Exception (the schema's validation error) both raise HTTPException(500),
\* which http_exception_handler answers with error_code "HTTP_ERROR".
translate_route(t, content) ==
    LET result == translate_text(content) IN
    IF result = Raised
    THEN [t EXCEPT !.pc = "responded", !.content = content, !.status = 500,
                   !.error = TranslationError, !.error_code = "HTTP_ERROR"]
    ELSE IF TranslateResponseValid(result)
    THEN [t EXCEPT !.pc = "responded", !.content = content, !.status = 200,
                   !.translated_text = result]
    ELSE [t EXCEPT !.pc = "responded", !.content = content, !.status = 500,
                   !.error = OtherException, !.error_code = "HTTP_ERROR"]

\* The completion ends and the request is answered.
TranslateReturn ==
    /\ tl.pc = "calling"
    /\ \E content \in TranslationOutcomes : tl' = translate_route(tl, content)
    /\ UNCHANGED <<req, fs, next_uuid, tts, others>>

----------------------------------------------------------------------------
(* backend/api/routes/v1/audio.py: text_to_speech *)

IdleSpeech ==
    [pc |-> "off", text |-> <<>>, voice |-> "", model |-> "", instructions |-> None,
     calls |-> <<>>, outcome |-> NotCalled, error |-> "", status |-> 0,
     content |-> None, error_code |-> ""]

NewSpeech(text, voice, model, instructions) ==
    [IdleSpeech EXCEPT !.pc = "start", !.text = text, !.voice = voice,
                       !.model = model, !.instructions = instructions]

\* The request body fails TTSRequest: the endpoint is not entered.
SpeechRejected ==
    /\ tts.pc = "start"
    /\ ~TTSRequestValid(tts.text, tts.instructions)
    /\ tts' = request_validation_response(tts)
    /\ UNCHANGED <<req, fs, next_uuid, tl, others>>

\* The request arrives: OpenAIService.generate_speech issues audio.speech.create.
SpeechCall ==
    /\ tts.pc = "start"
    /\ TTSRequestValid(tts.text, tts.instructions)
    /\ tts' = [tts EXCEPT !.pc = "calling",
                          !.calls = Append(@, speech_request(tts.text, tts.voice,
                                                             tts.model, tts.instructions))]
    /\ UNCHANGED <<req, fs, next_uuid, tl, others>>

\* The route on the service's result: TTSError raises HTTPException(500),
\* otherwise the bytes read from the upstream response are the response content.
speech_route(t, outcome) ==
    IF outcome = Raised
    THEN [t EXCEPT !.pc = "responded", !.outcome = outcome, !.status = 500,
                   !.error = TTSError, !.error_code = "HTTP_ERROR"]
    ELSE [t EXCEPT !.pc = "responded", !.outcome = outcome, !.status = 200,
                   !.content = outcome]

\* The synthesis call ends and the request is answered.
SpeechReturn ==
    /\ tts.pc = "calling"
    /\ \E outcome \in SpeechOutcomes : tts' = speech_route(tts, outcome)
    /\ UNCHANGED <<req, fs, next_uuid, tl, others>>

----------------------------------------------------------------------------
(* backend/services/openai_client.py: get_openai_service *)

\* The callers of get_openai_service.  The routes declare it as
\* Depends(get_openai_service); it is a plain (non-async) function, which the
\* framework runs on a worker thread of its pool for each request, so the
\* calls of concurrent requests run on different threads and interleave
\* between the statements of the function.
Callers == {"w1", "w2"}

\* _openai_service (0: None, n: the n-th OpenAIService constructed), the
\* number of instances constructed, the instances returned so far, and each
\* caller's position in the function
IdleService ==
    [instance |-> 0, constructed |-> 0, returned |-> {},
     callers |-> [c \in Callers |-> [pc |-> "off", ret |-> 0]]]

\* The process has started and no caller has asked for the service yet
NewService ==
    [IdleService EXCEPT !.callers = [c \in Callers |-> [pc |-> "idle", ret |-> 0]]]

\* A caller enters get_openai_service: if _openai_service is None
GetServiceCheck(c) ==
    /\ svc.callers[c].pc \in {"idle", "done"}
    /\ svc' = [svc EXCEPT !.callers[c].pc =
                            IF svc.instance = 0 THEN "construct" ELSE "return"]
    /\ UNCHANGED <<backend_vars, codex, cl, gemini_vars>>

\* _openai_service = OpenAIService()
GetServiceConstruct(c) ==
    /\ svc.callers[c].pc = "construct"
    /\ svc' = [svc EXCEPT !.constructed = @ + 1,
                          !.instance = svc.constructed + 1,
                          !.callers[c].pc = "return"]
    /\ UNCHANGED <<backend_vars, codex, cl, gemini_vars>>

\* return _openai_service
GetServiceReturn(c) ==
    /\ svc.callers[c].pc = "return"
    /\ svc' = [svc EXCEPT !.returned = @ \cup {svc.instance},
                          !.callers[c] = [pc |-> "done", ret |-> svc.instance]]
    /\ UNCHANGED <<backend_vars, codex, cl, gemini_vars>>

----------------------------------------------------------------------------
(* backend/utils/file_handlers.py: cleanup_files, statement by statement *)

\* The longest argument list of a cleanup_files call
MaxPaths == 3

\* Paths of the temporary directory that a call may be given
CleanupPaths ==
    { [id |-> 1, suffix |-> EXT_WAV], [id |-> 2, suffix |-> EXT_MP3],
      [id |-> 3, suffix |-> EXT_MP3] }

\* The argument lists: any paths, in any order, repeated or not
PathLists == UNION { [1..n -> CleanupPaths] : n \in 0..MaxPaths }

IdleCleanup ==
    [pc |-> "off", paths |-> <<>>, i |-> 1, before |-> {}, failing |-> {},
     warnings |-> {}]

\* cleanup_files(*paths) is called on the directory `before`; unlink() raises
\* for the paths in `failing`.  i is the position of the for loop.
NewCleanup(paths, before, failing) ==
    [IdleCleanup EXCEPT !.pc = "loop", !.paths = paths, !.before = before,
                        !.failing = failing]

\* Mutant of cleanup_step: the loop body has no try/except, a failing unlink
\* propagates out of cleanup_files
cleanup_step_propagating(c, files) ==
    LET path == c.paths[c.i] IN
    IF path \notin files THEN [cl |-> [c EXCEPT !.i = @ + 1], files |-> files]
    ELSE IF path \in c.failing
    THEN [cl |-> [c EXCEPT !.pc = "raised"], files |-> files]
    ELSE [cl |-> [c EXCEPT !.i = @ + 1], files |-> files \ {path}]

\* The loop body for paths[i]: a path that does not exist is passed over; an
\* existing one is unlinked; an exception (the unlink fails) is caught and
\* logged as a warning.  Either way the loop goes on.
cleanup_step(c, files) ==
    LET path == c.paths[c.i] IN
    IF path \notin files THEN [cl |-> [c EXCEPT !.i = @ + 1], files |-> files]
    ELSE IF path \in c.failing
    THEN [cl |-> [c EXCEPT !.i = @ + 1, !.warnings = @ \cup {path}], files |-> files]
    ELSE [cl |-> [c EXCEPT !.i = @ + 1], files |-> files \ {path}]

\* One iteration of for path in paths
CleanupStep ==
    /\ cl.pc = "loop"
    /\ cl.i <= Len(cl.paths)
    /\ cl' = cleanup_step(cl, fs).cl
    /\ fs' = cleanup_step(cl, fs).files
    /\ UNCHANGED <<req, next_uuid, tl, tts, codex, svc, gemini_vars>>

\* The loop is over: cleanup_files returns None
CleanupReturn ==
    /\ cl.pc = "loop"
    /\ cl.i > Len(cl.paths)
    /\ cl' = [cl EXCEPT !.pc = "returned"]
    /\ UNCHANGED <<backend_vars, codex, svc, gemini_vars>>

----------------------------------------------------------------------------
(* mcp_servers/codex/client.py: CodexClient.query *)

MAX_RETRIES == 3
\* RETRY_DELAY = 1.0 (seconds); every delay is a whole number of seconds
RETRY_DELAY == 1

\* Exception classes an attempt can end with, by name
TimeoutError == "TimeoutError"
APITimeoutError == "APITimeoutError"
RateLimitError == "RateLimitError"
APIError == "APIError"

\* How one attempt (wait_for(_make_request(...), timeout)) can end: "ok" is a
\* response, OtherException any exception that is none of the classes above
CodexOutcomes ==
    { "ok", TimeoutError, APITimeoutError, RateLimitError, APIError, OtherException }

\* CodexResponse(success=..., output=..., error=...), by what the claims read
CodexResponse(success, error) == [success |-> success, error |-> error]
NoCodexResponse == [success |-> FALSE, error |-> "<no response>"]

IdleCodex ==
    [pc |-> "off", available |-> FALSE, attempt |-> 0, requests |-> 0,
     outcomes |-> <<>>, sleeps |-> <<>>, last_error |-> "",
     response |-> NoCodexResponse]

\* A call of query, at its entry; `available` is is_available()
NewCodex(available) == [IdleCodex EXCEPT !.pc = "start", !.available = available]

\* return CodexResponse(...)
codex_return(c, success, error) ==
    [c EXCEPT !.pc = "returned", !.response = CodexResponse(success, error)]

\* for attempt in range(MAX_RETRIES): the loop head for `attempt`.  Inside the
\* range the attempt issues its upstream request; past it the loop is over and
\* the failure after MAX_RETRIES retries is returned.
codex_attempt(c, attempt) ==
    IF attempt < MAX_RETRIES
    THEN [c EXCEPT !.pc = "request", !.attempt = attempt, !.requests = @ + 1]
    ELSE codex_return(c, FALSE, "Request failed after retries")

\* The delay slept after a failed attempt: RETRY_DELAY * (2**attempt), twice
\* that after RateLimitError
retry_delay(outcome, attempt) ==
    IF outcome = RateLimitError
    THEN RETRY_DELAY * (2 ^ attempt) * 2
    ELSE RETRY_DELAY * (2 ^ attempt)

\* Mutant of codex_on_outcome: an exception outside the handled classes
\* propagates out of query
codex_on_outcome_propagating(c, outcome) ==
    LET ended == [c EXCEPT !.outcomes = Append(@, outcome)] IN
    IF outcome = "ok" THEN codex_return(ended, TRUE, "")
    ELSE IF outcome \in {TimeoutError, APITimeoutError, RateLimitError}
    THEN (IF c.attempt < MAX_RETRIES - 1
          THEN [ended EXCEPT !.pc = "sleep", !.last_error = outcome,
                             !.sleeps = Append(@, retry_delay(outcome, c.attempt))]
          ELSE codex_attempt([ended EXCEPT !.last_error = outcome], c.attempt + 1))
    ELSE IF outcome = APIError THEN codex_return(ended, FALSE, "API Error")
    ELSE [ended EXCEPT !.pc = "raised"]

\* Mutant of codex_on_outcome: every APIError is retried like a rate limit
codex_on_outcome_retrying_api_errors(c, outcome) ==
    LET ended == [c EXCEPT !.outcomes = Append(@, outcome)] IN
    IF outcome = "ok" THEN codex_return(ended, TRUE, "")
    ELSE IF outcome \in {TimeoutError, APITimeoutError, RateLimitError, APIError}
    THEN (IF c.attempt < MAX_RETRIES - 1
          THEN [ended EXCEPT !.pc = "sleep", !.last_error = outcome,
                             !.sleeps = Append(@, retry_delay(outcome, c.attempt))]
          ELSE codex_attempt([ended EXCEPT !.last_error = outcome], c.attempt + 1))
    ELSE codex_return(ended, FALSE, "Unexpected error")

\* The body of the loop once the attempt has ended: return response, or the
\* except clause of the exception's class.  A timeout or a rate limit sets
\* last_error and sleeps when attempt < MAX_RETRIES - 1, otherwise the loop
\* goes straight on; APIError and Exception return at once.
codex_on_outcome(c, outcome) ==
    LET ended == [c EXCEPT !.outcomes = Append(@, outcome)] IN
    IF outcome = "ok" THEN codex_return(ended, TRUE, "")
    ELSE IF outcome \in {TimeoutError, APITimeoutError, RateLimitError}
    THEN (IF c.attempt < MAX_RETRIES - 1
          THEN [ended EXCEPT !.pc = "sleep", !.last_error = outcome,
                             !.sleeps = Append(@, retry_delay(outcome, c.attempt))]
          ELSE codex_attempt([ended EXCEPT !.last_error = outcome], c.attempt + 1))
    ELSE IF outcome = APIError THEN codex_return(ended, FALSE, "API Error")
    ELSE codex_return(ended, FALSE, "Unexpected error")

\* query is called: without an API key it returns at once, otherwise the loop
\* starts and attempt 0 issues its request.
CodexQuery ==
    /\ codex.pc = "start"
    /\ codex' = IF ~codex.available
                THEN codex_return(codex, FALSE, "OPENAI_API_KEY not configured")
                ELSE codex_attempt(codex, 0)
    /\ UNCHANGED <<backend_vars, svc, cl, gemini_vars>>

\* The attempt in flight ends (wait_for returns or raises).
CodexAttemptEnd ==
    /\ codex.pc = "request"
    /\ \E outcome \in CodexOutcomes : codex' = codex_on_outcome(codex, outcome)
    /\ UNCHANGED <<backend_vars, svc, cl, gemini_vars>>

\* asyncio.sleep returns: the loop goes on with the next attempt.
CodexSleepDone ==
    /\ codex.pc = "sleep"
    /\ codex' = codex_attempt(codex, codex.attempt + 1)
    /\ UNCHANGED <<backend_vars, svc, cl, gemini_vars>>

----------------------------------------------------------------------------
(* mcp_servers/gemini/session_manager.py *)

SESSION_TTL == 3600
MAX_SESSIONS == 50

ROLE_USER == <<"u", "s", "e", "r">>
ROLE_ASSISTANT == <<"a", "s", "s", "i", "s", "t", "a", "n", "t">>
PREVIOUS_CONVERSATION ==
    <<"P", "r", "e", "v", "i", "o", "u", "s", " ", "c", "o", "n", "v", "e",
      "r", "s", "a", "t", "i", "o", "n", ":", "\n">>
USER_PREFIX ==
    <<"U", "s", "e", "r", ":", " ">>

\* str(uuid.uuid4())[:8] for the n-th uuid4() value (n < 100): a text no
\* caller supplies and no other uuid4() value yields, "#" and the decimal
\* numeral of n
uuid8(n) ==
    LET Digits == <<"0", "1", "2", "3", "4", "5", "6", "7", "8", "9">>
    IN  IF n < 10 THEN <<"#", Digits[n + 1]>>
        ELSE <<"#", Digits[(n \div 10) + 1], Digits[(n % 10) + 1]>>

\* A dict: a function on the set of its keys
EmptyDict == [k \in {} |-> 0]
DictWithout(d, keys) == [k \in DOMAIN d \ keys |-> d[k]]
DictWith(d, key, value) == [k \in DOMAIN d \cup {key} |-> IF k = key THEN value ELSE d[k]]

\* ChatSession(session_id=new_id), constructed at time `now`
ChatSession(session_id, now) ==
    [session_id |-> session_id, turns |-> <<>>, last_activity |-> now]

\* ChatSession.add_turn(role, content) at time `now`
add_turn(session, role, content, now) ==
    [session EXCEPT !.turns = Append(@, <<role, content>>), !.last_activity = now]

\* "\n".join(lines)
RECURSIVE JoinLines(_)
JoinLines(lines) ==
    IF lines = <<>> THEN <<>>
    ELSE IF Len(lines) = 1 THEN lines[1]
    ELSE lines[1] \o <<"\n">> \o JoinLines(Tail(lines))

\* ChatSession.build_prompt(message)
build_prompt(session, message) ==
    IF session.turns = <<>> THEN message
    ELSE LET turns == session.turns
             \* self.turns[-10:]
             last == IF Len(turns) <= 10 THEN turns
                     ELSE SubSeq(turns, Len(turns) - 9, Len(turns))
             history == JoinLines([i \in 1..Len(last) |->
                                     last[i][1] \o <<":", " ">> \o last[i][2]])
         IN  PREVIOUS_CONVERSATION \o history \o <<"\n", "\n">> \o USER_PREFIX \o message

\* Mutant of is_expired: a session never expires
is_expired_never(session, now) == FALSE

\* ChatSession.is_expired() at time `now`
is_expired(session, now) == now - session.last_activity > SESSION_TTL

\* SessionManager._cleanup: the dict once the expired sessions are deleted
cleanup(dict, objects, now) ==
    DictWithout(dict, {k \in DOMAIN dict : is_expired(objects[dict[k]], now)})

\* get_or_create, lines 52-53: the stored session, 0 when the id is falsy or
\* not a key
lookup(dict, session_id) ==
    IF Truthy(session_id) /\ session_id \in DOMAIN dict THEN dict[session_id] ELSE 0

\* get_or_create, lines 54-57: a new session is constructed and stored under
\* the supplied id, or under a uuid4() text when the id is falsy
create(dict, objects, uuid, session_id, now) ==
    LET new_id == IF Truthy(session_id) THEN session_id ELSE uuid8(uuid)
        session == Len(objects) + 1
    IN  [sessions |-> DictWith(dict, new_id, session),
         heap |-> Append(objects, ChatSession(new_id, now)),
         uuid |-> IF Truthy(session_id) THEN uuid ELSE uuid + 1,
         session |-> session, found |-> FALSE]

\* SessionManager.get_or_create(session_id) as a whole, under the lock
get_or_create(dict, objects, uuid, session_id, now) ==
    LET live == cleanup(dict, objects, now) IN
    IF lookup(live, session_id) # 0
    THEN [sessions |-> live, heap |-> objects, uuid |-> uuid,
          session |-> lookup(live, session_id), found |-> TRUE]
    ELSE create(live, objects, uuid, session_id, now)

\* SessionManager.clear(session_id): self._sessions.pop(session_id, None)
clear(dict, session_id) ==
    [sessions |-> DictWithout(dict, {session_id}),
     result |-> session_id \in DOMAIN dict]

\* SessionManager.list_all(), after its _cleanup: one entry per stored session
list_all(dict, objects) ==
    { [id |-> objects[dict[k]].session_id, turns |-> Len(objects[dict[k]].turns)] :
        k \in DOMAIN dict }

\* Mutant of lock_free: the lock excludes nobody
lock_free_always(holder) == TRUE

\* with self._lock: the lock can be taken when no thread holds it
lock_free(holder) == holder = ""

----------------------------------------------------------------------------
(* mcp_servers/gemini/server.py: gemini_chat, gemini_chat_clear,
   gemini_list_sessions; and threads calling the SessionManager *)

Chats == {"c1", "c2"}
Threads == {"t1", "t2"}

\* Bound: how many times the clock advances
MaxTicks == 2

\* The amounts of time that pass between two steps
TimeSteps == {1, SESSION_TTL}

\* session_id arguments: absent, empty, and an id chosen by the caller
SessionIds == { None, <<>>, <<"a">> }
Messages == { <<"h", "i">>, <<"y", "o">> }

\* GeminiResponse values client.query returns
NoGeminiResponse == [success |-> FALSE, output |-> <<>>, error |-> "<no response>"]
GeminiResponses ==
    { [success |-> TRUE, output |-> <<"o", "k">>, error |-> "None"],
      [success |-> FALSE, output |-> <<>>, error |-> "Timeout after 120.0s"] }

IdleChat ==
    [pc |-> "off", message |-> <<>>, session_id |-> None, session |-> 0,
     found |-> FALSE, history |-> <<>>, prompt |-> <<>>,
     response |-> NoGeminiResponse]

\* gemini_chat(message, session_id) at its entry
NewChat(message, session_id) ==
    [IdleChat EXCEPT !.pc = "start", !.message = message, !.session_id = session_id]

\* The calls a thread makes on the manager
ThreadOps ==
    { [op |-> "get_or_create", id |-> <<"a">>], [op |-> "get_or_create", id |-> None],
      [op |-> "clear", id |-> <<"a">>], [op |-> "list_all", id |-> None] }

IdleThread ==
    [pc |-> "off", op |-> "", id |-> None, session |-> 0, result |-> FALSE,
     listing |-> {}]

NewThread(call) == [IdleThread EXCEPT !.pc = "start", !.op = call.op, !.id = call.id]

\* time.time() advances
Tick ==
    /\ clock.ticks < MaxTicks
    /\ \E c \in Chats, t \in Threads : chat[c].pc # "off" \/ thr[t].pc # "off"
    /\ \E d \in TimeSteps : clock' = [now |-> clock.now + d, ticks |-> clock.ticks + 1]
    /\ UNCHANGED <<backend_vars, codex, svc, cl, lock, sessions, heap, chat, thr>>

\* Mutant of add_exchange: only the user turn is recorded
add_exchange_user_only(session, message, output, now) ==
    add_turn(session, ROLE_USER, message, now)

\* gemini_chat, lines 161-162: the two add_turn calls of a successful exchange
add_exchange(session, message, output, now) ==
    add_turn(add_turn(session, ROLE_USER, message, now), ROLE_ASSISTANT, output, now)

\* gemini_chat up to its await: the session is obtained from the manager, the
\* prompt is built from its history, and the query is issued.
ChatStart(c) ==
    /\ chat[c].pc = "start"
    /\ lock_free(lock)
    /\ LET got == get_or_create(sessions, heap, next_uuid, chat[c].session_id, clock.now)
       IN  /\ sessions' = got.sessions
           /\ heap' = got.heap
           /\ next_uuid' = got.uuid
           /\ chat' = [chat EXCEPT ![c].pc = "query",
                                   ![c].session = got.session,
                                   ![c].found = got.found,
                                   ![c].history = got.heap[got.session].turns,
                                   ![c].prompt = build_prompt(got.heap[got.session],
                                                              chat[c].message)]
    /\ UNCHANGED <<req, fs, tl, tts, codex, svc, cl, clock, lock, thr>>

\* client.query returns: a successful exchange is appended to the session
\* object the call holds, a failed one is not.
ChatQueryEnd(c) ==
    /\ chat[c].pc = "query"
    /\ \E response \in GeminiResponses :
        /\ chat' = [chat EXCEPT ![c].pc = "done", ![c].response = response]
        /\ heap' = IF response.success
                   THEN [heap EXCEPT ![chat[c].session] =
                            add_exchange(@, chat[c].message, response.output, clock.now)]
                   ELSE heap
    /\ UNCHANGED <<backend_vars, codex, svc, cl, clock, lock, sessions, thr>>

\* gemini_chat_clear(session_id), called while gemini_chat calls are served
ChatClear ==
    /\ \E c \in Chats : chat[c].pc # "off"
    /\ lock_free(lock)
    /\ \E session_id \in { <<"a">> } :
        sessions' = clear(sessions, session_id).sessions
    /\ UNCHANGED <<backend_vars, codex, svc, cl, clock, lock, heap, chat, thr>>

\* gemini_list_sessions(), called while gemini_chat calls are served
ListSessions ==
    /\ \E c \in Chats : chat[c].pc # "off"
    /\ lock_free(lock)
    /\ sessions' = cleanup(sessions, heap, clock.now)
    /\ UNCHANGED <<backend_vars, codex, svc, cl, clock, lock, heap, chat, thr>>

\* with self._lock: a thread enters the method it calls
ThreadAcquire(t) ==
    /\ thr[t].pc = "start"
    /\ lock_free(lock)
    /\ lock' = t
    /\ thr' = [thr EXCEPT ![t].pc = IF thr[t].op = "clear" THEN "pop" ELSE "cleanup"]
    /\ UNCHANGED <<backend_vars, codex, svc, cl, clock, sessions, heap, chat>>

\* self._cleanup() of get_or_create and list_all
ThreadCleanup(t) ==
    /\ thr[t].pc = "cleanup"
    /\ sessions' = cleanup(sessions, heap, clock.now)
    /\ thr' = [thr EXCEPT ![t].pc = IF thr[t].op = "list_all" THEN "list" ELSE "check"]
    /\ UNCHANGED <<backend_vars, codex, svc, cl, clock, lock, heap, chat>>

\* get_or_create: if session_id and session_id in self._sessions: return it
ThreadCheck(t) ==
    /\ thr[t].pc = "check"
    /\ thr' = IF lookup(sessions, thr[t].id) # 0
              THEN [thr EXCEPT ![t].pc = "release",
                               ![t].session = lookup(sessions, thr[t].id)]
              ELSE [thr EXCEPT ![t].pc = "create"]
    /\ UNCHANGED <<backend_vars, codex, svc, cl, clock, lock, sessions, heap, chat>>

\* get_or_create: the new session is constructed and stored
ThreadCreate(t) ==
    /\ thr[t].pc = "create"
    /\ LET made == create(sessions, heap, next_uuid, thr[t].id, clock.now)
       IN  /\ sessions' = made.sessions
           /\ heap' = made.heap
           /\ next_uuid' = made.uuid
           /\ thr' = [thr EXCEPT ![t].pc = "release", ![t].session = made.session]
    /\ UNCHANGED <<req, fs, tl, tts, codex, svc, cl, clock, lock, chat>>

\* clear: the pop
ThreadPop(t) ==
    /\ thr[t].pc = "pop"
    /\ sessions' = clear(sessions, thr[t].id).sessions
    /\ thr' = [thr EXCEPT ![t].pc = "release",
                          ![t].result = clear(sessions, thr[t].id).result]
    /\ UNCHANGED <<backend_vars, codex, svc, cl, clock, lock, heap, chat>>

\* list_all: the list it returns
ThreadList(t) ==
    /\ thr[t].pc = "list"
    /\ thr' = [thr EXCEPT ![t].pc = "release", ![t].listing = list_all(sessions, heap)]
    /\ UNCHANGED <<backend_vars, codex, svc, cl, clock, lock, sessions, heap, chat>>

\* The with block is left and the method returns.
ThreadRelease(t) ==
    /\ thr[t].pc = "release"
    /\ lock' = ""
    /\ thr' = [thr EXCEPT ![t].pc = "done"]
    /\ UNCHANGED <<backend_vars, codex, svc, cl, clock, sessions, heap, chat>>

\* Nothing of the chat-session tooling is running
GeminiIdle ==
    /\ clock = [now |-> 0, ticks |-> 0]
    /\ lock = ""
    /\ sessions = EmptyDict
    /\ heap = <<>>
    /\ chat = [c \in Chats |-> IdleChat]
    /\ thr = [t \in Threads |-> IdleThread]

----------------------------------------------------------------------------
(* The system: one request of one of the three kinds, or one Codex query,
   or the first calls for the service, or one cleanup_files call *)

InitTranscribe ==
    /\ \E filename \in FileNames, language \in LanguageHints, size \in UploadSizes :
        req = [r \in Reqs |-> IF r = "r1" THEN NewUpload(filename, language, size)
                              ELSE IdleRequest]
    /\ tl = IdleTranslate
    /\ tts = IdleSpeech

InitTranslate ==
    /\ req = [r \in Reqs |-> IdleRequest]
    /\ \E text \in TranslateTexts, source \in LanguageNames, target \in LanguageNames :
        tl = NewTranslate(text, source, target)
    /\ tts = IdleSpeech

InitSpeech ==
    /\ req = [r \in Reqs |-> IdleRequest]
    /\ tl = IdleTranslate
    /\ \E text \in SpeechTexts, voice \in Voices, model \in SpeechModels,
          instructions \in Instructions :
        tts = NewSpeech(text, voice, model, instructions)

\* No request is being handled
BackendIdle ==
    /\ req = [r \in Reqs |-> IdleRequest]
    /\ tl = IdleTranslate
    /\ tts = IdleSpeech

InitCodex ==
    /\ BackendIdle
    /\ \E available \in BOOLEAN : codex = NewCodex(available)
    /\ svc = IdleService
    /\ cl = IdleCleanup

InitService ==
    /\ BackendIdle
    /\ codex = IdleCodex
    /\ svc = NewService
    /\ cl = IdleCleanup

\* cleanup_files is called with any argument list on a directory holding any
\* of the paths (the uuid4 values of these paths have been used)
InitCleanup ==
    /\ BackendIdle
    /\ codex = IdleCodex
    /\ svc = IdleService
    /\ next_uuid = Cardinality(CleanupPaths) + 1
    /\ \E paths \in PathLists, before \in SUBSET CleanupPaths,
          failing \in SUBSET CleanupPaths :
        /\ fs = before
        /\ cl = NewCleanup(paths, before, failing)

Init ==
    /\ GeminiIdle
    /\ \/ /\ fs = {}
          /\ next_uuid = 1
          /\ \/ /\ (InitTranscribe \/ InitTranslate \/ InitSpeech)
                /\ codex = IdleCodex
                /\ svc = IdleService
                /\ cl = IdleCleanup
             \/ InitCodex
             \/ InitService
       \/ InitCleanup

Next ==
    \/ \E r \in Reqs :
        \/ Validate(r)
        \/ SaveUploadOk(r)
        \/ SaveUploadFail(r)
        \/ ConvertOk(r)
        \/ ConvertFail(r)
        \/ InitialReturn(r)
        \/ OptimizeReturn(r)
        \/ FinalReturn(r)
        \/ SendResponse(r)
        \/ SendErrorResponse(r)
        \/ RunBackgroundTask(r)
    \/ TranslateRejected
    \/ TranslateCall
    \/ TranslateReturn
    \/ SpeechRejected
    \/ SpeechCall
    \/ SpeechReturn
    \/ CodexQuery
    \/ CodexAttemptEnd
    \/ CodexSleepDone
    \/ \E c \in Callers :
        \/ GetServiceCheck(c)
        \/ GetServiceConstruct(c)
        \/ GetServiceReturn(c)
    \/ CleanupStep
    \/ CleanupReturn

Spec == Init /\ [][Next]_vars

\* Every await of CodexClient.query ends: wait_for returns or raises within
\* its timeout, and asyncio.sleep returns after its delay.
FairSpec ==
    /\ Spec
    /\ WF_vars(CodexQuery)
    /\ WF_vars(CodexAttemptEnd)
    /\ WF_vars(CodexSleepDone)

----------------------------------------------------------------------------
(* Concurrent transcribe requests *)

\* Two transcribe requests are in flight at once, one with a language hint
\* (Flow 2) and one without (Flow 1); the handlers interleave at their awaits.
InitConcurrent ==
    /\ fs = {}
    /\ next_uuid = 1
    /\ req = [r \in Reqs |->
                IF r = "r1" THEN NewRequest(<<"a", ".", "m", "4", "a">>, <<"e", "s">>)
                ELSE NewRequest(<<"a", ".", "m", "p", "3">>, None)]
    /\ tl = IdleTranslate
    /\ tts = IdleSpeech
    /\ codex = IdleCodex
    /\ svc = IdleService
    /\ cl = IdleCleanup
    /\ GeminiIdle

\* The upstream results followed when two requests run at once: one
\* transcript (or an empty final one, which the response schema rejects), one
\* detected language or none, one optimizer result or a failure.  Raising and
\* map-style outcomes of every call are all kept.  File handling does not read
\* any of these values.
NarrowOutcomes(q) ==
    /\ q.initial_text \in {None, <<"h", "i">>}
    /\ q.detected_lang \in {None, <<"e", "s">>}
    /\ q.optimizer_content \in {NotCalled, Raised, <<"p">>}
    /\ q.final_text \in {None, <<>>, <<"h", "i">>}

NextConcurrent ==
    \E r \in Reqs :
        \/ Validate(r)
        \/ SaveUploadOk(r)
        \/ SaveUploadFail(r)
        \/ ConvertOk(r)
        \/ ConvertFail(r)
        \/ InitialReturn(r) /\ NarrowOutcomes(req'[r])
        \/ OptimizeReturn(r) /\ NarrowOutcomes(req'[r])
        \/ FinalReturn(r) /\ NarrowOutcomes(req'[r])
        \/ SendResponse(r)
        \/ SendErrorResponse(r)
        \/ RunBackgroundTask(r)

SpecConcurrent == InitConcurrent /\ [][NextConcurrent]_vars

----------------------------------------------------------------------------
(* The Gemini chat-session tooling *)

\* How many sessions the manager may hold when the calls begin: none, or one
\* fewer than MAX_SESSIONS, each made by an earlier gemini_chat without id
StoredBefore == {0, MAX_SESSIONS - 1}

\* The manager after n calls get_or_create(None) at time 0
ManagerAfter(n) ==
    /\ sessions = [k \in {uuid8(i) : i \in 1..n} |-> CHOOSE i \in 1..n : uuid8(i) = k]
    /\ heap = [i \in 1..n |-> ChatSession(uuid8(i), 0)]
    /\ next_uuid = n + 1

\* Two gemini_chat calls with different messages are served, with
\* gemini_chat_clear and gemini_list_sessions calls among them, while time
\* passes.
InitChats ==
    /\ \E n \in StoredBefore : ManagerAfter(n)
    /\ \E m1 \in Messages, m2 \in Messages, id1 \in SessionIds, id2 \in SessionIds :
        /\ m1 # m2
        /\ chat = [c \in Chats |-> IF c = "c1" THEN NewChat(m1, id1) ELSE NewChat(m2, id2)]
    /\ thr = [t \in Threads |-> IdleThread]

\* Two threads each call one method of a manager that holds session "a" or
\* no session.
InitThreads ==
    /\ \/ /\ sessions = EmptyDict
          /\ heap = <<>>
       \/ /\ sessions = DictWith(EmptyDict, <<"a">>, 1)
          /\ heap = <<ChatSession(<<"a">>, 0)>>
    /\ next_uuid = 1
    /\ \E call1 \in ThreadOps, call2 \in ThreadOps :
        thr = [t \in Threads |-> IF t = "t1" THEN NewThread(call1) ELSE NewThread(call2)]
    /\ chat = [c \in Chats |-> IdleChat]

InitGemini ==
    /\ BackendIdle
    /\ fs = {}
    /\ codex = IdleCodex
    /\ svc = IdleService
    /\ cl = IdleCleanup
    /\ clock = [now |-> 0, ticks |-> 0]
    /\ lock = ""
    /\ (InitChats \/ InitThreads)

NextGemini ==
    \/ Tick
    \/ ChatClear
    \/ ListSessions
    \/ \E c \in Chats :
        \/ ChatStart(c)
        \/ ChatQueryEnd(c)
    \/ \E t \in Threads :
        \/ ThreadAcquire(t)
        \/ ThreadCleanup(t)
        \/ ThreadCheck(t)
        \/ ThreadCreate(t)
        \/ ThreadPop(t)
        \/ ThreadList(t)
        \/ ThreadRelease(t)

SpecGemini == InitGemini /\ [][NextGemini]_vars

----------------------------------------------------------------------------
(* Properties *)

\* C1: once a transcribe request and the cleanup it scheduled have completed
\* (and no unlink failed), none of the temporary files the request created
\* (the saved upload, the transcoded MP3) exists, whatever the outcome.
C1_TempFilesDeleted ==
    \A r \in Reqs :
        Finished(req[r]) /\ req[r].undeleted = {} => req[r].created \cap fs = {}

\* C2: a transcription call is issued only after the transcoding to MP3 has
\* succeeded; a request whose transcoding failed issues no remote call and
\* ends with AudioProcessingError, status 500.
C2_TranscodeBeforeTranscribe ==
    \A r \in Reqs :
        LET q == req[r] IN
        /\ q.calls # <<>> => q.convert = "ok"
        /\ q.convert = "failed" =>
              /\ q.calls = <<>>
              /\ q.pc \in {"raised", "responded"}
              /\ q.error = AudioProcessingError
              /\ q.status = 500

C2_Witness ==
    \E r \in Reqs :
        /\ req[r].convert = "failed"
        /\ req[r].pc = "responded"
        /\ req[r].status = 500

\* The upload a validation error is due for: no filename, or a last
\* suffix that, lower-cased, is none of .mp3, .ogg, .wav, .m4a
C3_Rejected(filename) ==
    \/ filename = None
    \/ filename = <<>>
    \/ Lower(PathSuffix(filename)) \notin {EXT_MP3, EXT_OGG, EXT_WAV, EXT_M4A}

\* C3: a transcribe request without a filename or with a suffix outside the
\* allowed ones fails with FileValidationError, status 400, having written no
\* temporary file, started no transcoding and issued no remote call; after
\* its response nothing of it is left to run.
C3_InvalidUploadRejected ==
    \A r \in Reqs :
        LET q == req[r] IN
        (q.pc \notin {"off", "start"} /\ C3_Rejected(q.filename)) =>
            /\ q.pc \in {"raised", "responded"}
            /\ q.error = FileValidationError
            /\ q.status = 400
            /\ q.temp_input = NoPath /\ q.temp_mp3 = NoPath
            /\ q.created = {}
            /\ q.convert = "none"
            /\ q.calls = <<>>
            /\ q.bg = <<>>

C3_Witness ==
    \E r \in Reqs :
        /\ req[r].filename = <<".", "m", "p", "3">>
        /\ req[r].pc = "responded"
        /\ req[r].status = 400

\* C4: with a non-empty language hint the initial transcription call is made
\* with gpt-4o-mini-transcribe and exactly the hint as its language, and no
\* call of the request uses whisper-1; without a hint the initial call is
\* made with whisper-1 and no language parameter.
C4_InitialCallFollowsHint ==
    \A r \in Reqs :
        LET q == req[r] IN
        q.calls # <<>> =>
            /\ q.calls[1].api = "audio.transcriptions"
            /\ IF q.language # None /\ q.language # <<>>
               THEN /\ q.calls[1].model = GPT_4O_MINI_TRANSCRIBE
                    /\ q.calls[1].language = q.language
                    /\ \A i \in DOMAIN q.calls : q.calls[i].model # WHISPER_1
               ELSE /\ q.calls[1].model = WHISPER_1
                    /\ q.calls[1].language = None

C4_Witness ==
    \E r \in Reqs :
        /\ req[r].language = <<"E", "S">>
        /\ Len(req[r].calls) = 3
        /\ req[r].status = 200

\* C5: a successful transcribe response has a non-empty language; without a
\* hint, an initial response that carries no detected language does not stop
\* the pipeline (the next call is issued) and resolves to "en", reported as
\* "English".
C5_LanguageNeverEmpty ==
    \A r \in Reqs :
        LET q == req[r] IN
        /\ q.status = 200 => q.body.language # None /\ Len(q.body.language) >= 1
        /\ (/\ q.language \in {None, <<>>}
            /\ q.calls # <<>>
            /\ q.calls[1].outcome = "object"
            /\ q.detected_lang \in {None, <<>>}) =>
                /\ Len(q.calls) >= 2
                /\ q.detected_language = <<"e", "n">>
                /\ q.status = 200 => q.body.language = English

C5_Witness ==
    \E r \in Reqs :
        /\ req[r].language = None
        /\ req[r].detected_lang = None
        /\ req[r].status = 200
        /\ req[r].body.language = English

\* The prompt-optimization call failed or returned empty output
OptimizerFailed(q) == q.optimizer_content \in {Raised, None, <<>>}

\* The initial and the final transcription call both returned a transcript
BothTranscriptionsReturned(q) ==
    /\ Len(q.calls) = 3
    /\ q.calls[1].outcome = "object"
    /\ q.calls[3].outcome = "object"

\* C6 (as stated): if the prompt-optimization call fails or returns empty
\* output, the transcript the transcribe operation returns equals the
\* unrefined transcript of the initial transcription call.
C6_ReturnsInitialTranscript ==
    \A r \in Reqs :
        LET q == req[r] IN
        OptimizerFailed(q) /\ q.status = 200 => q.body.text = q.initial_text

\* C6 (amended): if the prompt-optimization call fails or returns empty
\* output, the final transcription call is still issued, with the default
\* prompt "Audio content in <language name>." for the language name the
\* optimizer was asked about, and the transcript returned is the text of that
\* final call.
C6_FallsBackToDefaultPrompt ==
    \A r \in Reqs :
        LET q == req[r] IN
        OptimizerFailed(q) =>
            /\ Len(q.calls) = 3
            /\ q.calls[3].api = "audio.transcriptions"
            /\ q.calls[3].model = GPT_4O_TRANSCRIBE
            /\ q.calls[3].prompt = AUDIO_CONTENT_IN \o q.calls[2].language \o <<".">>
            /\ q.status = 200 =>
                  /\ q.calls[3].outcome = "object"
                  /\ q.body.text = q.final_text

C6_Witness ==
    \E r \in Reqs :
        /\ req[r].optimizer_content = Raised
        /\ req[r].status = 200
        /\ req[r].initial_text = <<"h", "i">>
        /\ req[r].body.text = <<"h", "o">>
        /\ req[r].calls[3].prompt = AUDIO_CONTENT_IN \o Spanish \o <<".">>

C8_PrimaryFailureAborts ==
    /\ \A r \in Reqs :
        LET q == req[r] IN
        \A i \in DOMAIN q.calls :
            (q.calls[i].api = "audio.transcriptions" /\ q.calls[i].outcome = "raise") =>
                /\ i = Len(q.calls)
                /\ q.pc \in {"raised", "responded"}
                /\ q.error = TranscriptionError
                /\ q.status = 500
                /\ q.body.text = None /\ q.body.language = None
    /\ tl.content = Raised =>
            /\ Len(tl.calls) = 1
            /\ tl.error = TranslationError
            /\ tl.status = 500
            /\ tl.translated_text = None
    /\ tts.outcome = Raised =>
            /\ Len(tts.calls) = 1
            /\ tts.error = TTSError
            /\ tts.status = 500
            /\ tts.content = None

C8_Witness ==
    \E r \in Reqs :
        /\ Len(req[r].calls) = 3
        /\ req[r].calls[3].outcome = "raise"
        /\ req[r].initial_text = <<"h", "i">>
        /\ req[r].pc = "responded"
        /\ req[r].body.detail = TranscriptionError

\* C9: a translate request never ends with status 200 and an empty
\* translated_text; an upstream completion whose content is missing, empty
\* or empty once stripped ends the request with an error response.
C9_NoEmptyTranslation ==
    /\ tl.status = 200 => tl.translated_text # None /\ Len(tl.translated_text) >= 1
    /\ (/\ tl.pc = "responded"
        /\ \/ tl.content \in {None, <<>>}
           \/ \A i \in DOMAIN tl.content : tl.content[i] \in {" ", "\t", "\n"}) =>
            /\ tl.status = 500
            /\ tl.error # ""
            /\ tl.translated_text = None

C9_Witness ==
    /\ tl.pc = "responded"
    /\ tl.content = <<" ", "\n">>
    /\ tl.status = 500

\* C10: the synthesis call carries an instructions field exactly when the
\* selected model is gpt-4o-mini-tts; with any other model a supplied
\* non-empty instruction is left out of the call, no error arises from it, and
\* the bytes the upstream returns are the response.
C10_InstructionsOnlyForMiniTTS ==
    \A i \in DOMAIN tts.calls :
        LET c == tts.calls[i]
            selected == IF tts.model = "" THEN GPT_4O_MINI_TTS ELSE tts.model
        IN  /\ c.model = selected
            /\ (c.instructions # None) <=> (selected = GPT_4O_MINI_TTS)
            /\ (/\ selected # GPT_4O_MINI_TTS
                /\ tts.instructions # None /\ tts.instructions # <<>>
                /\ tts.pc = "responded"
                /\ tts.outcome # Raised) =>
                    /\ c.instructions = None
                    /\ tts.status = 200
                    /\ tts.error = ""
                    /\ tts.content = tts.outcome

C10_Witness ==
    /\ tts.pc = "responded"
    /\ tts.model = TTS_1_HD
    /\ tts.instructions = <<"w", "a", "r", "m">>
    /\ tts.status = 200
    /\ tts.content = <<"m", "p", "3">>

\* C11: the language of a successful transcribe response is the table's name
\* for the pipeline's language code when the lower-cased code is in the table
\* ("es" and "ES" give "Spanish", a missing detection gives "English"), and
\* for a code absent from the table it is that code capitalized ("xx" gives
\* "Xx").
C11_LanguageNameOrCapitalized ==
    \A r \in Reqs :
        LET q == req[r]
            code == IF q.language # None /\ q.language # <<>>
                    THEN q.language ELSE q.detected_language
        IN  q.status = 200 =>
                IF \E item \in LANGUAGE_CODE_TO_NAME : item[1] = Lower(code)
                THEN \E item \in LANGUAGE_CODE_TO_NAME :
                        item[1] = Lower(code) /\ q.body.language = item[2]
                ELSE /\ Len(q.body.language) = Len(code)
                     /\ q.body.language[1] = UpperChar(code[1])
                     /\ \A i \in 2..Len(code) : q.body.language[i] = LowerChar(code[i])

\* C12: a transcription call answered with a map-style response (keys "text"
\* and "language") is not an error: the request does not fail with
\* TranscriptionError on it, and the transcript the map carries is taken as
\* the call's result exactly as for an object-style response.
C12_MapResponseAccepted ==
    \A r \in Reqs :
        LET q == req[r] IN
        \A i \in DOMAIN q.calls :
            (q.calls[i].api = "audio.transcriptions" /\ q.calls[i].outcome = "map") =>
                /\ q.error # TranscriptionError
                /\ i = 1 => q.initial_text # None
                /\ i = 3 => q.final_text # None

\* A timeout or a rate-limit failure of an attempt
CodexRetryable(outcome) == outcome \in {"TimeoutError", "APITimeoutError", "RateLimitError"}

\* The safety half of C13: query never raises; every attempt issues one
\* upstream request and there are never more than MAX_RETRIES (3) of them; a
\* successful attempt is the last one and returns success=True at once; after
\* three timeout or rate-limit failures in a row success=False is returned.
C13_AtMostThreeRequests ==
    /\ codex.pc # "raised"
    /\ codex.requests <= 3
    /\ codex.requests = Len(codex.outcomes) + (IF codex.pc = "request" THEN 1 ELSE 0)
    /\ codex.pc = "returned" => codex.response # NoCodexResponse
    /\ \A i \in DOMAIN codex.outcomes :
        codex.outcomes[i] = "ok" =>
            /\ i = Len(codex.outcomes)
            /\ codex.pc = "returned"
            /\ codex.response.success
            /\ codex.requests = i
    /\ (/\ Len(codex.outcomes) = 3
        /\ \A i \in DOMAIN codex.outcomes : CodexRetryable(codex.outcomes[i])) =>
            /\ codex.pc = "returned"
            /\ ~codex.response.success

\* C13: CodexClient.query always terminates by returning a CodexResponse and
\* never raises: a query that has been called eventually returns, having
\* issued at most three upstream requests; a successful attempt returns
\* immediately, and three consecutive timeout or rate-limit failures return
\* success=False.
C13_QueryReturns ==
    /\ []C13_AtMostThreeRequests
    /\ (codex.pc \in {"start", "request", "sleep"}) ~> (codex.pc = "returned")

C13_Witness ==
    /\ codex.pc = "returned"
    /\ codex.outcomes = <<"TimeoutError", "RateLimitError", "APITimeoutError">>
    /\ codex.requests = 3
    /\ ~codex.response.success

\* C14: a failure that is neither a timeout nor a rate limit (APIError, or any
\* other exception) ends the query at once with success=False, on whichever
\* attempt it occurs: it is the last attempt, no request is issued and no
\* delay is slept after it.
C14_OtherFailureEndsQuery ==
    \A i \in DOMAIN codex.outcomes :
        (codex.outcomes[i] # "ok" /\ ~CodexRetryable(codex.outcomes[i])) =>
            /\ i = Len(codex.outcomes)
            /\ codex.pc = "returned"
            /\ ~codex.response.success
            /\ codex.requests = i
            /\ Len(codex.sleeps) = i - 1

C14_Witness ==
    /\ codex.pc = "returned"
    /\ codex.outcomes = <<"RateLimitError", "APIError">>
    /\ codex.sleeps = <<2>>
    /\ codex.requests = 2

\* C15: within one query the delay slept before each retry is strictly
\* greater than the delay slept before the previous retry, for every sequence
\* of timeout and rate-limit failures.
C15_DelaysStrictlyIncrease ==
    \A i \in 2..Len(codex.sleeps) : codex.sleeps[i] > codex.sleeps[i - 1]

\* C16: all calls of get_openai_service in one process return the same
\* OpenAIService instance and at most one instance is ever constructed, also
\* when the first calls come from requests handled concurrently.
C16_SingleInstance ==
    /\ svc.constructed <= 1
    /\ Cardinality(svc.returned) <= 1
    /\ \A c \in Callers : svc.callers[c].pc = "done" => svc.callers[c].ret = svc.instance

\* C17: the remote calls of a transcribe request happen in the order initial
\* transcription, prompt optimization, final transcription (gpt-4o-transcribe),
\* each issued only after the previous one has ended (a transcription with a
\* result, the optimization with a result or an absorbed failure); the
\* optimizer is given the initial call's transcript and the resolved language
\* (by its name), and the final call is made with the resolved language and
\* exactly the prompt the optimizer returned (an empty prompt is sent as no
\* prompt).  A successful request has made all three calls.
C17_CallsInOrder ==
    \A r \in Reqs :
        LET q == req[r]
            n == Len(q.calls)
            resolved == IF q.language # None /\ q.language # <<>>
                        THEN q.language ELSE q.detected_language
        IN  /\ n <= 3
            /\ \A i \in 1..(n - 1) :
                /\ q.calls[i].outcome # "pending"
                /\ q.calls[i].api = "audio.transcriptions" => q.calls[i].outcome = "object"
            /\ n >= 1 =>
                /\ q.calls[1].api = "audio.transcriptions"
                /\ q.calls[1].model \in {WHISPER_1, GPT_4O_MINI_TRANSCRIBE}
            /\ n >= 2 =>
                /\ q.calls[2].api = "chat.completions"
                /\ q.calls[2].prompt = q.initial_text
                /\ q.calls[2].language = LanguageGet(Lower(resolved), Title(resolved))
            /\ n >= 3 =>
                /\ q.calls[3].api = "audio.transcriptions"
                /\ q.calls[3].model = GPT_4O_TRANSCRIBE
                /\ q.calls[3].language = resolved
                /\ q.calls[3].prompt =
                      IF q.optimized_prompt = <<>> THEN None ELSE q.optimized_prompt
            /\ q.status = 200 =>
                /\ n = 3
                /\ q.calls[3].outcome = "object"

C17_Witness ==
    \E r \in Reqs :
        /\ req[r].status = 200
        /\ req[r].language = None
        /\ req[r].detected_language = <<"e", "s">>
        /\ req[r].initial_text = <<"h", "i">>
        /\ req[r].optimized_prompt = <<"p">>
        /\ req[r].calls[3].prompt = <<"p">>

\* The transcription calls of a request that read the file f
TranscriptionCallsReading(q, f) ==
    { i \in DOMAIN q.calls : q.calls[i].api = "audio.transcriptions" /\ q.calls[i].file = f }

\* C18 (as stated): within one transcribe request the transcoded MP3 is
\* consumed by exactly one transcription call: never by more than one, and by
\* one in a request that succeeds.
C18_ConsumedByExactlyOneCall ==
    \A r \in Reqs :
        LET q == req[r]
            readers == TranscriptionCallsReading(q, q.temp_mp3)
        IN  /\ Cardinality(readers) <= 1
            /\ q.status = 200 => Cardinality(readers) = 1

\* C18 (amended): within one transcribe request the transcoded MP3 is what
\* every transcription call reads, it is consumed by at most two of them (the
\* initial and the final call; by exactly these two in a request that
\* succeeds), and each reads it before it is deleted: the file exists while
\* a call is in flight and is gone only once the calls have ended.
C18_ConsumedByTwoCallsBeforeDeletion ==
    \A r \in Reqs :
        LET q == req[r]
            readers == TranscriptionCallsReading(q, q.temp_mp3)
        IN  /\ \A i \in DOMAIN q.calls :
                q.calls[i].api = "audio.transcriptions" =>
                    /\ q.temp_mp3 # NoPath
                    /\ i \in readers
                    /\ q.calls[i].outcome = "pending" => q.temp_mp3 \in fs
            /\ readers \subseteq {1, 3}
            /\ q.status = 200 => readers = {1, 3}
            /\ (q.temp_mp3 \in q.created /\ q.temp_mp3 \notin fs) =>
                /\ q.pc = "responded"
                /\ \A i \in DOMAIN q.calls : q.calls[i].outcome # "pending"

C18_Witness ==
    \E r \in Reqs :
        /\ req[r].status = 200
        /\ TranscriptionCallsReading(req[r], req[r].temp_mp3) = {1, 3}
        /\ req[r].temp_mp3 \in req[r].created
        /\ req[r].temp_mp3 \notin fs

\* The paths a cleanup_files call was given
CleanupListed == { cl.paths[j] : j \in DOMAIN cl.paths }

\* C19: cleanup_files never raises, for any list of paths: a path that does
\* not exist (or was removed earlier in the same call) is passed over, a
\* deletion that fails is only logged and the paths after it are still
\* deleted, and when the call has returned every listed path whose deletion
\* did not fail no longer exists, while no other file has been touched.
C19_CleanupNeverRaises ==
    /\ cl.pc # "raised"
    /\ cl.warnings \subseteq (cl.failing \cap cl.before \cap CleanupListed)
    /\ \A j \in 1..(cl.i - 1) :
          cl.paths[j] \in fs => cl.paths[j] \in cl.warnings
    /\ cl.pc = "returned" =>
          /\ cl.i = Len(cl.paths) + 1
          /\ \A p \in CleanupListed : p \notin cl.warnings => p \notin fs
          /\ fs = cl.before \ (CleanupListed \ cl.failing)

C19_Witness ==
    /\ cl.pc = "returned"
    /\ cl.paths = << [id |-> 1, suffix |-> EXT_WAV], [id |-> 2, suffix |-> EXT_MP3],
                     [id |-> 3, suffix |-> EXT_MP3] >>
    /\ cl.before = { [id |-> 1, suffix |-> EXT_WAV], [id |-> 3, suffix |-> EXT_MP3] }
    /\ cl.warnings = { [id |-> 1, suffix |-> EXT_WAV] }
    /\ fs = { [id |-> 1, suffix |-> EXT_WAV] }

\* The temporary paths a request has been assigned
AssignedPaths(q) == {q.temp_input, q.temp_mp3} \ {NoPath}

\* C20: when several transcribe requests are in flight, the temporary paths
\* of each request differ from those of every other request (and from each
\* other), and a file a request created is removed by nothing but that
\* request's own cleanup: it is missing only once the request has been
\* answered successfully and its cleanup has run.
C20_RequestsOwnTheirFiles ==
    \A r \in Reqs :
        LET q == req[r] IN
        /\ \A o \in Reqs \ {r} : AssignedPaths(q) \cap AssignedPaths(req[o]) = {}
        /\ (q.temp_input # NoPath /\ q.temp_mp3 # NoPath) => q.temp_input # q.temp_mp3
        /\ q.created \subseteq AssignedPaths(q)
        /\ \A f \in q.created :
              f \notin fs => (q.pc = "responded" /\ q.bg = <<>> /\ q.status = 200)

C20_Witness ==
    /\ req["r1"].pc = "responded" /\ req["r1"].bg = <<>> /\ req["r1"].status = 200
    /\ Cardinality(req["r1"].created) = 2
    /\ req["r1"].created \cap fs = {}
    /\ req["r2"].pc = "final"
    /\ Cardinality(req["r2"].created) = 2
    /\ req["r2"].created \subseteq fs

\* An answered transcribe request that failed carries an error message and a
\* tag and neither transcript nor language
TranscribeErrorResponse(q) ==
    /\ q.error # "" /\ q.body.detail # ""
    /\ q.body.error_code # ""
    /\ q.body.text = None /\ q.body.language = None

\* C21 (as stated): every failed transcribe, translate or synthesize request
\* is answered with an error message, an error classification tag and no
\* success payload; a validation failure (of the uploaded file or of the
\* request body) has status 400 and every other failure status 500.
C21_ErrorResponseTagged ==
    /\ \A r \in Reqs :
        LET q == req[r] IN
        (q.pc = "responded" /\ q.status # 200) =>
            /\ TranscribeErrorResponse(q)
            /\ q.status = IF q.error = "FileValidationError" THEN 400 ELSE 500
    /\ (tl.pc = "responded" /\ tl.status # 200) =>
            /\ tl.error # "" /\ tl.error_code # ""
            /\ tl.translated_text = None
            /\ tl.status = IF tl.error = "RequestValidationError" THEN 400 ELSE 500
    /\ (tts.pc = "responded" /\ tts.status # 200) =>
            /\ tts.error # "" /\ tts.error_code # ""
            /\ tts.content = None
            /\ tts.status = IF tts.error = "RequestValidationError" THEN 400 ELSE 500

\* C21 (amended): every failed transcribe, translate or synthesize request is
\* answered with an error message and no success payload.  A failure raised
\* inside a handler carries the tag "HTTP_ERROR", with status 400 for a file
\* validation failure and 500 for every other failure; a request whose body
\* fails its schema is answered before the handler runs, with status 422, no
\* tag and no upstream call.  A successful response carries no error.
C21_ErrorResponseShape ==
    /\ \A r \in Reqs :
        LET q == req[r] IN
        /\ (q.pc = "responded" /\ q.status # 200) =>
            /\ TranscribeErrorResponse(q)
            /\ q.body.error_code = "HTTP_ERROR"
            /\ q.status = IF q.error = "FileValidationError" THEN 400 ELSE 500
        /\ q.status = 200 => (q.error = "" /\ q.body.detail = "" /\ q.body.error_code = "")
    /\ (tl.pc = "responded" /\ tl.status # 200) =>
            /\ tl.error # ""
            /\ tl.translated_text = None
            /\ IF tl.error = "RequestValidationError"
               THEN tl.status = 422 /\ tl.error_code = "" /\ tl.calls = <<>>
               ELSE tl.status = 500 /\ tl.error_code = "HTTP_ERROR"
    /\ tl.status = 200 => (tl.error = "" /\ tl.error_code = "")
    /\ (tts.pc = "responded" /\ tts.status # 200) =>
            /\ tts.error # ""
            /\ tts.content = None
            /\ IF tts.error = "RequestValidationError"
               THEN tts.status = 422 /\ tts.error_code = "" /\ tts.calls = <<>>
               ELSE tts.status = 500 /\ tts.error_code = "HTTP_ERROR"
    /\ tts.status = 200 => (tts.error = "" /\ tts.error_code = "")

C21_Witness ==
    /\ tl.pc = "responded"
    /\ tl.text = <<>>
    /\ tl.status = 422

\* C22: a transcribe request whose upload is larger than
\* settings.max_upload_size fails with a validation error (status 400) before
\* anything is sent upstream: once it is past validation it has failed with
\* FileValidationError and has issued no remote call.
C22_OversizedUploadRejected ==
    \A r \in Reqs :
        LET q == req[r] IN
        (q.size > max_upload_size /\ q.pc \notin {"off", "start"}) =>
            /\ q.error = "FileValidationError"
            /\ q.status = 400
            /\ q.calls = <<>>

\* C23: translate_text never returns an empty string: once the completion of
\* a translate request has ended, translate_text either raised
\* TranslationError or returned a translation of length at least 1.
C23_TranslateTextNeverEmpty ==
    (tl.pc = "responded" /\ tl.content # NotCalled) =>
        LET result == translate_text(tl.content) IN
        \/ result = Raised /\ tl.error = TranslationError
        \/ result # Raised /\ Len(result) >= 1

\* C24: generate_optimized_prompt never raises and never returns an empty
\* string: once the optimizer call of a request has ended, the prompt it
\* returned is non-empty, and the final transcription call that follows
\* carries a non-empty prompt.
C24_OptimizedPromptNeverEmpty ==
    \A r \in Reqs :
        LET q == req[r] IN
        /\ q.optimizer_content # NotCalled =>
              /\ q.optimized_prompt \notin {None, Raised}
              /\ Len(q.optimized_prompt) >= 1
        /\ Len(q.calls) = 3 =>
              /\ q.calls[3].prompt # None
              /\ Len(q.calls[3].prompt) >= 1

\* C25: when gemini_chat obtains its session, get_or_create returns the stored
\* session with its turn history if and only if a session with that id is
\* stored and has not been idle longer than SESSION_TTL; otherwise it
\* constructs and stores a new session with empty history, under the supplied
\* id, or under a fresh id when none (None or the empty string) is supplied.
\* The session it returns is never an expired one.
C25_GetOrCreateReturnsLiveSession ==
    [][\A c \in Chats :
        (chat[c].pc = "start" /\ chat'[c].pc = "query") =>
            LET id == chat[c].session_id
                stored == /\ id \in DOMAIN sessions
                          /\ ~(clock.now - heap[sessions[id]].last_activity > SESSION_TTL)
                got == chat'[c].session
            IN  /\ IF stored
                   THEN /\ got = sessions[id]
                        /\ chat'[c].found
                        /\ chat'[c].history = heap[got].turns
                        /\ heap' = heap
                   ELSE /\ got \notin DOMAIN heap
                        /\ got \in DOMAIN heap'
                        /\ ~chat'[c].found
                        /\ chat'[c].history = <<>>
                        /\ heap'[got].turns = <<>>
                        /\ heap'[got].session_id \in DOMAIN sessions'
                        /\ sessions'[heap'[got].session_id] = got
                        /\ IF id \notin {None, <<>>}
                           THEN heap'[got].session_id = id
                           ELSE heap'[got].session_id \notin DOMAIN sessions
                /\ ~(clock.now - heap'[got].last_activity > SESSION_TTL)
      ]_vars

\* A gemini_chat on id "a" got a new, empty session although an earlier
\* session "a" with turns exists: that one had expired.
C25_Witness ==
    \E c \in Chats :
        /\ chat[c].pc \in {"query", "done"}
        /\ chat[c].session_id = <<"a">>
        /\ ~chat[c].found
        /\ chat[c].history = <<>>
        /\ \E o \in 1..(chat[c].session - 1) :
            /\ heap[o].session_id = <<"a">>
            /\ heap[o].turns # <<>>
            /\ clock.now - heap[o].last_activity > SESSION_TTL

\* The session object is no longer held by the manager
Removed(o) == \A k \in DOMAIN sessions : sessions[k] # o

\* C26: once a session has been removed from the manager (by
\* gemini_chat_clear or by the expiry sweep), no step changes that session's
\* turn history; in particular a gemini_chat whose query was in flight when
\* its session was removed does not append its turns to the removed object.
C26_RemovedSessionNeverMutated ==
    [][\A o \in DOMAIN heap : Removed(o) => heap'[o].turns = heap[o].turns]_vars

\* C28: the number of sessions the SessionManager holds never exceeds
\* MAX_SESSIONS.
C28_AtMostMaxSessions == Cardinality(DOMAIN sessions) <= MAX_SESSIONS

\* The thread is inside the with block of the method it calls
InsideLock(t) == thr[t].pc \in {"cleanup", "check", "create", "pop", "list", "release"}

\* C27: the SessionManager methods exclude each other: at most one thread is
\* inside a method at a time; two threads that called get_or_create with the
\* same id and both hold a session that has not expired hold the same
\* session, the only live one under that id; and of two threads that cleared
\* the same stored id exactly one got True.
C27_ManagerOperationsAtomic ==
    /\ Cardinality({t \in Threads : InsideLock(t)}) <= 1
    /\ \A t1 \in Threads, t2 \in Threads :
        (t1 # t2 /\ thr[t1].pc = "done" /\ thr[t2].pc = "done"
                 /\ thr[t1].op = thr[t2].op /\ thr[t1].id = thr[t2].id
                 /\ thr[t1].id = <<"a">>) =>
            /\ (/\ thr[t1].op = "get_or_create"
                /\ ~(clock.now - heap[thr[t1].session].last_activity > SESSION_TTL)
                /\ ~(clock.now - heap[thr[t2].session].last_activity > SESSION_TTL)) =>
                  /\ thr[t1].session = thr[t2].session
                  /\ Cardinality({o \in DOMAIN heap :
                        /\ heap[o].session_id = thr[t1].id
                        /\ ~(clock.now - heap[o].last_activity > SESSION_TTL)}) = 1
            /\ (/\ thr[t1].op = "clear"
                /\ \E o \in DOMAIN heap : heap[o].session_id = thr[t1].id) =>
                  thr[t1].result # thr[t2].result

\* Two threads asked for the unknown id "a" after time had passed: one
\* session was made, and both hold it.
C27_Witness ==
    /\ \A t \in Threads :
        /\ thr[t].pc = "done"
        /\ thr[t].op = "get_or_create"
        /\ thr[t].id = <<"a">>
        /\ thr[t].session = 1
    /\ Len(heap) = 1
    /\ heap[1].last_activity > 0

\* The gemini_chat calls that ended with a successful exchange on the object
Exchanged(o) ==
    {c \in Chats : chat[c].pc = "done" /\ chat[c].session = o /\ chat[c].response.success}

\* C29: every session's turn history has even length and alternates "user",
\* "assistant"; it holds exactly one pair of turns per successful gemini_chat
\* on it (a failed query adds nothing), and each pair is the message of one
\* call immediately followed by the reply to that call.
C29_TurnsAlternate ==
    \A o \in DOMAIN heap :
        LET turns == heap[o].turns IN
        /\ Len(turns) % 2 = 0
        /\ \A i \in DOMAIN turns :
            turns[i][1] = IF i % 2 = 1 THEN ROLE_USER ELSE ROLE_ASSISTANT
        /\ Len(turns) = 2 * Cardinality(Exchanged(o))
        /\ \A k \in 1..(Len(turns) \div 2) :
            \E c \in Exchanged(o) :
                /\ turns[2 * k - 1] = <<ROLE_USER, chat[c].message>>
                /\ turns[2 * k] = <<ROLE_ASSISTANT, chat[c].response.output>>

\* Two gemini_chat calls with different messages were in flight on the same
\* session at once (each saw it empty) and both succeeded.
C29_Witness ==
    /\ chat["c1"].pc = "done" /\ chat["c2"].pc = "done"
    /\ chat["c1"].session = chat["c2"].session
    /\ chat["c1"].history = <<>> /\ chat["c2"].history = <<>>
    /\ chat["c1"].message # chat["c2"].message
    /\ chat["c1"].response.success /\ chat["c2"].response.success
    /\ Len(heap[chat["c1"].session].turns) = 4

\* The paths of the cleanup tasks the request has scheduled and not yet run
ScheduledPaths(q) == UNION { {q.bg[i][j] : j \in DOMAIN q.bg[i]} : i \in DOMAIN q.bg }

\* C30: while a transcription call of a request is in progress, the MP3 it
\* reads exists, the request has scheduled no cleanup and has not returned,
\* and no other request has scheduled the cleanup of that file, whatever the
\* other request is doing.
C30_FileOutlivesTranscriptionCalls ==
    \A r \in Reqs :
        LET q == req[r] IN
        \A i \in DOMAIN q.calls :
            (q.calls[i].api = "audio.transcriptions" /\ q.calls[i].outcome = "pending") =>
                /\ q.calls[i].file = q.temp_mp3
                /\ q.calls[i].file \in fs
                /\ q.bg = <<>>
                /\ q.pc \notin {"returned", "raised", "responded"}
                /\ \A o \in Reqs \ {r} : q.calls[i].file \notin ScheduledPaths(req[o])

\* The final transcription call of one request is in progress, its MP3 in
\* place, while the other request has been answered and its files cleaned up.
C30_Witness ==
    /\ Len(req["r1"].calls) = 3
    /\ req["r1"].calls[3].outcome = "pending"
    /\ req["r1"].temp_mp3 \in fs
    /\ req["r2"].pc = "responded" /\ req["r2"].status = 200 /\ req["r2"].bg = <<>>
    /\ req["r2"].created # {}
    /\ req["r2"].created \cap fs = {}

====
